---- MODULE Spec2Model ----
(***************************************************************************)
(* Model of src/market_analyzer.py (class MarketAnalyzer): fetch_data with *)
(* its recursive retry, analyze_trends with its per-source try/except, and *)
(* _calculate_trend.  A network request is an environment step whose       *)
(* outcome (payload, error, or no answer at all) is chosen freely.         *)
(***************************************************************************)
EXTENDS Integers, Sequences, FiniteSets, TLC

VARIABLES
    data_sources,   \* self.data_sources: sequence of <<source, source_type>>
    api_keys,       \* self.api_keys: the set of keys of the dictionary
    max_retries,    \* self.max_retries
    pc,             \* idle, loop, fetch, process, returned, raised, blocked (trend, trend_done, patterns)
    idx,            \* 1-based position of the for loop of analyze_trends in data_sources
    analysis,       \* the dict built by analyze_trends: timestamp and per-source entries
    depth,          \* number of nested fetch_data frames on the interpreter stack
    attempts,       \* requests.get calls sent by the current top-level fetch_data call
    last,           \* outcome of the latest attempt of the current fetch_data call
    permSeen,       \* some attempt of the current fetch_data call failed for good
    data,           \* the payload fetch_data returned for the current source
    body,           \* the body response.json() decoded in the latest answered attempt
    log,            \* the records written by logger.error at lines 102 and 131
    good,           \* positions whose fetch returned a payload well formed for their type
    failed,         \* positions whose try block (lines 84-100) was left by an exception
    stage,          \* how far the try block of each position has got
    ret,            \* return value or exception of the latest _calculate_trend or analyze_patterns call
    call,           \* 1 in the first analyze_trends call on the analyzer, 2 in the second
    script,         \* per position, the outcomes the network gave the attempts of the first call
    first,          \* the per-source entries the first call returned
    behavioral_patterns,    \* CustomerBehaviorAnalyzer.behavioral_patterns
    lastPatterns    \* what the latest analyze_patterns call that returned has returned

marketVars == <<data_sources, api_keys, max_retries, pc, idx, analysis, depth,
                attempts, last, permSeen, data, body, log, good, failed, stage, ret>>

twiceVars == <<call, script, first>>

patternVars == <<behavioral_patterns, lastPatterns>>

vars == <<marketVars, twiceVars, patternVars>>

-----------------------------------------------------------------------------
(* Bounds of the model *)

\* longest registry
MaxSources == 2
\* most entries of 'Time Series (Daily)' in a fetched payload
MaxDays == 2
\* most articles in a fetched payload
MaxArticles == 2
\* closing prices are 1..MaxPrice
MaxPrice == 3
\* datetime.now() reads one of 1..MaxClock
MaxClock == 2
\* most entries of a payload passed to _calculate_trend on its own
MaxLen == 4
\* the interpreter's recursion limit (1000 frames in CPython), counted in
\* fetch_data frames; it must exceed DefaultMaxRetries + 1
RecursionLimit == 5

(* Program constants *)

DefaultMaxRetries == 3

-----------------------------------------------------------------------------
(* The registry *)

Sources == {"alphavantage", "iexcloud", "newsapi"}

Types == {"finance", "news"}

DefaultApiKeys == {"alphavantage", "iexcloud"}

DefaultDataSources == <<(<<"alphavantage", "finance">>), (<<"newsapi", "news">>)>>

SeqsUpTo(S, n) == UNION {[1..k -> S] : k \in 0..n}

Registries ==
    {r \in SeqsUpTo(Sources \X Types, MaxSources) :
        \A i, j \in 1..Len(r) : i # j => r[i][1] # r[j][1]}
        \cup {DefaultDataSources}

Source(i) == data_sources[i][1]

SourceType(i) == data_sources[i][2]

-----------------------------------------------------------------------------
(* Decoded JSON payloads.  The value of 'Time Series (Daily)' is a mapping *)
(* kept as the sequence of its entries in iteration order; an entry has a  *)
(* key (a date, or literally '4. close') and a value.  A value is a dict   *)
(* (with a numeric '4. close', a non-numeric one, or none), a bare number  *)
(* or a bare non-numeric string.                                           *)

NoExc == "none"

DictNum(v) == [t |-> "dict", close |-> "num", v |-> v]

DictStr == [t |-> "dict", close |-> "str", v |-> 0]

DictNoKey == [t |-> "dict", close |-> "absent", v |-> 0]

Num(v) == [t |-> "num", close |-> "absent", v |-> v]

Str == [t |-> "str", close |-> "absent", v |-> 0]

Prices == 1..MaxPrice

DayValues == {DictNum(v) : v \in Prices} \cup {DictStr, DictNoKey, Str}

CloseKeyValues == {Num(v) : v \in Prices} \cup {Str}

Entries ==
    {[key |-> "day", val |-> x] : x \in DayValues}
        \cup {[key |-> "4. close", val |-> x] : x \in CloseKeyValues}

\* a mapping holds a key once
TimeSeries(n) ==
    {ts \in SeqsUpTo(Entries, n) :
        \A i, j \in 1..Len(ts) :
            (i # j /\ ts[i].key = "4. close") => ts[j].key # "4. close"}

Titles == {"markets are bullish", "BULLISH rally", "rates unchanged"}

Articles ==
    {[hasTitle |-> TRUE, title |-> s] : s \in Titles}
        \cup {[hasTitle |-> FALSE, title |-> ""]}

NoData == [hasTS |-> FALSE, ts |-> <<>>, hasArticles |-> FALSE, articles |-> <<>>]

FinancePayloads(n) ==
    {[hasTS |-> TRUE, ts |-> ts, hasArticles |-> FALSE, articles |-> <<>>] :
        ts \in TimeSeries(n)}

NewsPayloads ==
    {[hasTS |-> FALSE, ts |-> <<>>, hasArticles |-> TRUE, articles |-> a] :
        a \in SeqsUpTo(Articles, MaxArticles)}

\* what response.json() can return
Payloads == FinancePayloads(MaxDays) \cup NewsPayloads \cup {NoData}

Finance(ts) == [hasTS |-> TRUE, ts |-> ts, hasArticles |-> FALSE, articles |-> <<>>]

News(a) == [hasTS |-> FALSE, ts |-> <<>>, hasArticles |-> TRUE, articles |-> a]

Day(x) == [key |-> "day", val |-> x]

\* one payload of each shape
SamplePayloads ==
    {NoData,
     Finance(<<Day(DictNum(1)), Day(DictNum(1))>>),
     Finance(<<Day(DictNoKey), [key |-> "4. close", val |-> Num(1)]>>),
     Finance(<<Day(DictStr)>>),
     News(<<>>),
     News(<<[hasTitle |-> TRUE, title |-> "BULLISH rally"],
            [hasTitle |-> TRUE, title |-> "rates unchanged"]>>),
     News(<<[hasTitle |-> FALSE, title |-> ""]>>)}

-----------------------------------------------------------------------------
(* Python primitives used by the analysis code.  Each returns a record:    *)
(* exc is the exception raised (NoExc if none) and val the value.          *)

Ok(x) == [exc |-> NoExc, val |-> x]

Raise(e) == [exc |-> e, val |-> 0]

\* float(x)
Float(x) ==
    CASE x.t = "num" -> Ok(x.v)
      [] x.t = "str" -> Raise("ValueError")
      [] OTHER -> Raise("TypeError")

\* x['4. close'] for a value x
GetClose(x) ==
    IF x.t # "dict" THEN Raise("TypeError")
    ELSE CASE x.close = "num" -> Ok(Num(x.v))
           [] x.close = "str" -> Ok(Str)
           [] OTHER -> Raise("KeyError")

\* float(day['4. close'])
FloatOfClose(day) ==
    LET g == GetClose(day) IN IF g.exc # NoExc THEN g ELSE Float(g.val)

\* d['Time Series (Daily)']['4. close']
LookupCloseKey(d) ==
    IF ~d.hasTS THEN Raise("KeyError")
    ELSE LET hits == {i \in 1..Len(d.ts) : d.ts[i].key = "4. close"}
         IN IF hits = {} THEN Raise("KeyError")
            ELSE Ok(d.ts[CHOOSE i \in hits : TRUE].val)

RECURSIVE SumSeq(_)
SumSeq(s) == IF s = <<>> THEN 0 ELSE s[1] + SumSeq(Tail(s))

\* s[-3:]
LastThree(s) == SubSeq(s, IF Len(s) > 3 THEN Len(s) - 2 ELSE 1, Len(s))

Min(S) == CHOOSE x \in S : \A y \in S : x <= y

-----------------------------------------------------------------------------
(* _calculate_trend *)

SmaDivisor == 3

\* lines 118-129: the classification of a list of prices.  sma is
\* sum(prices[-3:]) / SmaDivisor; current_price > sma is compared without the
\* division, which is exact for integer prices.
TrendOf(prices) ==
    IF Len(prices) < 2 THEN "neutral"
    ELSE LET total == SumSeq(LastThree(prices))
             current_price == prices[Len(prices)]
         IN CASE current_price * SmaDivisor > total -> "upward"
              [] current_price * SmaDivisor < total -> "downward"
              [] OTHER -> "neutral"

\* the exceptions the except clause of _calculate_trend catches (line 130)
TrendCaught == {"KeyError", "IndexError"}

\* lines 116-132.  exc: the exception that leaves the method; val: the
\* returned trend; logged: whether line 131 wrote to the log.
CalculateTrend(d) ==
    IF ~d.hasTS THEN [exc |-> NoExc, val |-> "neutral", logged |-> TRUE]
    ELSE LET closes == [i \in 1..Len(d.ts) |-> FloatOfClose(d.ts[i].val)]
             bad == {i \in 1..Len(d.ts) : closes[i].exc # NoExc}
         IN IF bad # {}
            THEN LET e == closes[Min(bad)].exc
                 IN IF e \in TrendCaught
                    THEN [exc |-> NoExc, val |-> "neutral", logged |-> TRUE]
                    ELSE [exc |-> e, val |-> "", logged |-> FALSE]
            ELSE [exc |-> NoExc,
                  val |-> TrendOf([i \in 1..Len(d.ts) |-> closes[i].val]),
                  logged |-> FALSE]

-----------------------------------------------------------------------------
(* The two branches of analyze_trends *)

\* the title compared as it is
LowerSkipped(s) == s

\* title.lower()
Lower(s) == IF s = "BULLISH rally" THEN "bullish rally" ELSE s

\* 'bullish' in s
ContainsBullish(s) == s \in {"markets are bullish", "bullish rally"}

RECURSIVE GCD(_, _)
GCD(a, b) == IF b = 0 THEN a ELSE GCD(b, a % b)

\* the number p / n, kept as a fraction in lowest terms
Ratio(p, n) == [num |-> p \div GCD(p, n), den |-> n \div GCD(p, n)]

Zero == [num |-> 0, den |-> 1]

\* `else 1` instead of `else 0`
EmptySentimentOne == [num |-> 1, den |-> 1]

\* line 99: the value stored when there are no articles
EmptySentiment == Zero

\* lines 95-100
NewsEntry(d) ==
    LET articles == IF d.hasArticles THEN d.articles ELSE <<>>
        untitled == {i \in 1..Len(articles) : ~articles[i].hasTitle}
        positive_count ==
            Cardinality({i \in 1..Len(articles) :
                            ContainsBullish(Lower(articles[i].title))})
        total_articles == Len(articles)
    IN IF untitled # {} THEN [exc |-> "KeyError", entry |-> <<>>, logged |-> FALSE]
       ELSE [exc |-> NoExc,
             entry |-> [sentiment |->
                           IF total_articles > 0
                           THEN Ratio(positive_count, total_articles)
                           ELSE EmptySentiment],
             logged |-> FALSE]

\* line 88
CurrentPrice(d) == LookupCloseKey(d)

\* lines 88-92
FinanceEntry(d) ==
    LET current_price == CurrentPrice(d)
        price == IF current_price.exc = NoExc THEN Float(current_price.val)
                 ELSE current_price
        trend == CalculateTrend(d)
    IN CASE price.exc # NoExc -> [exc |-> price.exc, entry |-> <<>>, logged |-> FALSE]
         [] trend.exc # NoExc -> [exc |-> trend.exc, entry |-> <<>>, logged |-> FALSE]
         [] OTHER -> [exc |-> NoExc,
                      entry |-> [price |-> price.val, trend |-> trend.val],
                      logged |-> trend.logged]

\* lines 86-100 for a source of type ty
Entry(ty, d) == IF ty = "finance" THEN FinanceEntry(d) ELSE NewsEntry(d)

-----------------------------------------------------------------------------
(* State after construction (lines 22-28).  data_sources and max_retries   *)
(* are public attributes a caller configures: every registry of Registries *)
(* and both retry bounds of RetryBounds are covered.                       *)

RetryBounds == {0, DefaultMaxRetries}

NoResults == [s \in {} |-> 0]

NoRet == [exc |-> NoExc, val |-> "", logged |-> FALSE]

\* float('nan'), and the place of a number in a dict that has none
NaN == [num |-> 0, den |-> 0]

\* CustomerBehaviorAnalyzer.__init__ (customer_behavior_analyzer.py line 22):
\* self.behavioral_patterns = {}
NoPatterns == [keys |-> {}, purchase_freq |-> NoResults, avg_session_duration |-> NaN]

\* nothing of a CustomerBehaviorAnalyzer is touched by MarketAnalyzer
PatternsIdle ==
    /\ behavioral_patterns = NoPatterns
    /\ lastPatterns = NoPatterns

\* no source has been started
AllPending == [i \in 1..Len(data_sources) |-> "Pending"]

\* no request has been answered
NoScript == [i \in 1..Len(data_sources) |-> <<>>]

Init ==
    /\ data_sources \in Registries
    /\ api_keys = DefaultApiKeys
    /\ max_retries \in RetryBounds
    /\ pc = "idle"
    /\ idx = 0
    /\ analysis = [timestamp |-> 0, results |-> NoResults]
    /\ depth = 0
    /\ attempts = 0
    /\ last = "none"
    /\ permSeen = FALSE
    /\ data = NoData
    /\ body = NoData
    /\ log = {}
    /\ good = {}
    /\ failed = {}
    /\ stage = AllPending
    /\ ret = NoRet
    /\ call = 1
    /\ script = NoScript
    /\ first = NoResults
    /\ PatternsIdle

-----------------------------------------------------------------------------
(* analyze_trends *)

\* the exceptions `except Exception` (line 101) catches
AllExceptions ==
    {"KeyError", "ValueError", "TypeError", "RecursionError",
     "ConnectionError", "HTTP5xx", "HTTP4xx", "JSONDecodeError"}

\* except requests.exceptions.RequestException instead of except Exception
AnalyzeCaughtNarrow ==
    {"ConnectionError", "HTTP5xx", "HTTP4xx", "JSONDecodeError"}

AnalyzeCaught == AllExceptions

\* the entry is computed and never stored
PutSkipped(a, k, e) == a

\* the entry is stored and the timestamp taken again, the clock having moved
PutRestamped(a, k, e) ==
    [timestamp |-> a.timestamp + 1,
     results |-> [s \in DOMAIN a.results \cup {k} |->
                      IF s = k THEN e ELSE a.results[s]]]

\* analysis[source] = entry
Put(a, k, e) ==
    [a EXCEPT !.results =
        [s \in DOMAIN a.results \cup {k} |-> IF s = k THEN e ELSE a.results[s]]]

\* a payload a provider of the given type sends when nothing is wrong: every
\* day a dict with a numeric '4. close', every article with a title; the set
\* only feeds good
WellFormed(ty, d) ==
    IF ty = "finance"
    THEN /\ d.hasTS
         /\ Len(d.ts) >= 1
         /\ \A i \in 1..Len(d.ts) :
                d.ts[i].key = "day" /\ d.ts[i].val.t = "dict" /\ d.ts[i].val.close = "num"
    ELSE \A i \in 1..Len(d.articles) : d.articles[i].hasTitle

\* the stage the current source is left in by an exception: raised by
\* fetch_data (line 85) or by the lines after it (86-100)
StageLeft == IF pc = "fetch" THEN "FetchFailed" ELSE "Failed"

\* an exception e leaves the try block of the current source (lines 101-102);
\* lg are the records logged before it got there
Propagate(e, lg) ==
    /\ depth' = 0
    /\ failed' = failed \cup {idx}
    /\ stage' = [stage EXCEPT ![idx] = StageLeft]
    /\ IF e \in AnalyzeCaught
       THEN /\ log' = log \cup lg
                    \cup {[site |-> "analyze_trends", source |-> Source(idx), exc |-> e]}
            /\ idx' = idx + 1
            /\ pc' = "loop"
       ELSE /\ log' = log \cup lg
            /\ idx' = idx
            /\ pc' = "raised"

\* line 82
AnalyzeStart ==
    /\ pc = "idle"
    /\ \E t \in 1..MaxClock : analysis' = [timestamp |-> t, results |-> NoResults]
    /\ idx' = 1
    /\ pc' = "loop"
    /\ UNCHANGED <<data_sources, api_keys, max_retries, depth, attempts, last,
                   permSeen, data, body, log, good, failed, stage, ret>>
    /\ UNCHANGED <<twiceVars, patternVars>>

\* lines 83-85: the next source; its fetch_data call is entered
CallFetch ==
    /\ pc = "loop"
    /\ idx <= Len(data_sources)
    /\ depth' = 1
    /\ attempts' = 0
    /\ last' = "none"
    /\ permSeen' = FALSE
    /\ data' = NoData
    /\ body' = NoData
    /\ stage' = [stage EXCEPT ![idx] = "Fetching"]
    /\ pc' = "fetch"
    /\ UNCHANGED <<data_sources, api_keys, max_retries, idx, analysis, log, good,
                   failed, ret>>
    /\ UNCHANGED <<twiceVars, patternVars>>

\* line 104
Return ==
    /\ pc = "loop"
    /\ idx > Len(data_sources)
    /\ pc' = "returned"
    /\ UNCHANGED <<data_sources, api_keys, max_retries, idx, analysis, depth,
                   attempts, last, permSeen, data, body, log, good, failed, stage,
                   ret>>
    /\ UNCHANGED <<twiceVars, patternVars>>

\* lines 86-102: the payload of the current source is analysed
Process ==
    /\ pc = "process"
    /\ LET r == Entry(SourceType(idx), data)
           lg == IF r.logged
                 THEN {[site |-> "_calculate_trend", source |-> Source(idx),
                        exc |-> "KeyError"]}
                 ELSE {}
       IN IF r.exc = NoExc
          THEN /\ analysis' = Put(analysis, Source(idx), r.entry)
               /\ log' = log \cup lg
               /\ idx' = idx + 1
               /\ pc' = "loop"
               /\ depth' = depth
               /\ failed' = failed
               /\ stage' = [stage EXCEPT ![idx] = "Done"]
          ELSE /\ Propagate(r.exc, lg)
               /\ analysis' = analysis
    /\ UNCHANGED <<data_sources, api_keys, max_retries, attempts, last, permSeen,
                   data, body, good, ret>>
    /\ UNCHANGED <<twiceVars, patternVars>>

-----------------------------------------------------------------------------
(* fetch_data.  One action is one execution of the try block (lines 43-65) *)
(* of the innermost frame, followed by the except clause (lines 66-73)     *)
(* when the attempt raised a RequestException.                             *)

\* a branch that reads no key of self.api_keys
KeyNeededNone(source) == {}

\* the keys of self.api_keys the branch of a source reads (lines 48, 60)
KeyNeeded(source) ==
    CASE source = "alphavantage" -> {"alphavantage"}
      [] source = "newsapi" -> {".newsapi"}
      [] OTHER -> {}

\* the subclasses of requests.exceptions.RequestException (line 66)
RequestExceptions == {"ConnectionError", "HTTP5xx", "HTTP4xx", "JSONDecodeError"}

\* failures of requests.get and of raise_for_status (lines 50-64)
RequestErrors == {"ConnectionError", "HTTP5xx", "HTTP4xx"}

\* what response.json() raises on a malformed body: a RequestException from
\* requests 2.27 on, a plain ValueError before
JsonErrors == {"JSONDecodeError", "ValueError"}

\* the failures no retry repairs; fetch_data itself draws no such line, the
\* set only feeds permSeen
Permanent == {"HTTP4xx", "JSONDecodeError", "ValueError"}

\* line 68
RetryAllowed == max_retries > 0

\* self.max_retries -= 1 before the call of line 72
AfterRetryDecremented(m) == m - 1

\* lines 68-72: self.max_retries after a retry was started; the branch only
\* reads it
AfterRetry(m) == m

\* line 72 written without `return`: an outer frame returns None
UnwindDropped(d, frames) == IF frames > 1 THEN NoData ELSE d

\* lines 65, 72: what the outermost of the given number of frames returns
\* when the innermost returns d
Unwind(d, frames) == d

\* the retry of lines 69-72 is handed to a background task and fetch_data
\* returns at once: the loop goes on while the source is still being fetched
HandleDeferred(e) ==
    /\ max_retries' = max_retries
    /\ depth' = 0
    /\ failed' = failed
    /\ stage' = stage
    /\ log' = log
    /\ idx' = idx + 1
    /\ pc' = "loop"

\* `return None` instead of `raise` at line 73: the caller goes on with the
\* lines after the fetch
HandleSwallowed(e) ==
    /\ max_retries' = max_retries
    /\ depth' = 0
    /\ failed' = failed
    /\ stage' = [stage EXCEPT ![idx] = "FetchFailed"]
    /\ log' = log
    /\ idx' = idx
    /\ pc' = "process"

\* lines 66-73 for an exception e raised by the attempt just made.  The
\* records of lines 67 and 69 are not kept in log: nothing reads them.
Handle(e) ==
    IF e \notin RequestExceptions
    THEN Propagate(e, {}) /\ max_retries' = max_retries
    ELSE IF RetryAllowed
         THEN IF depth < RecursionLimit
              THEN /\ max_retries' = AfterRetry(max_retries)
                   /\ depth' = depth + 1
                   /\ failed' = failed
                   /\ stage' = stage
                   /\ log' = log
                   /\ idx' = idx
                   /\ pc' = "fetch"
              ELSE Propagate("RecursionError", {}) /\ max_retries' = max_retries
         ELSE Propagate(e, {}) /\ max_retries' = max_retries

\* lines 48, 60: the key lookup fails before any request is sent
FetchKeyError ==
    /\ pc = "fetch"
    /\ ~(KeyNeeded(Source(idx)) \subseteq api_keys)
    /\ last' = "KeyError"
    /\ Propagate("KeyError", {})
    /\ UNCHANGED <<data_sources, api_keys, max_retries, analysis, attempts,
                   permSeen, data, body, good, ret>>
    /\ UNCHANGED <<twiceVars, patternVars>>

\* the payloads a run is checked against: a registry of one source against
\* every payload of Payloads, a longer one against one payload of each shape
PayloadsOf(registry) == IF Len(registry) <= 1 THEN Payloads ELSE SamplePayloads

\* lines 50-65: the request is answered with the decodable body d
FetchSuccessWith(d) ==
    /\ pc = "fetch"
    /\ KeyNeeded(Source(idx)) \subseteq api_keys
    /\ body' = d
    /\ data' = Unwind(d, depth)
    /\ good' = IF WellFormed(SourceType(idx), d) THEN good \cup {idx} ELSE good
    /\ attempts' = attempts + 1
    /\ last' = "ok"
    /\ depth' = 0
    /\ stage' = [stage EXCEPT ![idx] = "Fetched"]
    /\ pc' = "process"
    /\ UNCHANGED <<data_sources, api_keys, max_retries, idx, analysis, permSeen,
                   log, failed, ret>>
    /\ UNCHANGED patternVars

\* lines 50-64, 66-73: requests.get or raise_for_status raises e
FetchFailWith(e) ==
    /\ pc = "fetch"
    /\ KeyNeeded(Source(idx)) \subseteq api_keys
    /\ last' = e
    /\ permSeen' = (permSeen \/ e \in Permanent)
    /\ Handle(e)
    /\ attempts' = attempts + 1
    /\ UNCHANGED <<data_sources, api_keys, analysis, data, body, good, ret>>
    /\ UNCHANGED patternVars

\* line 65, 66-73: the body is not JSON and response.json() raises e
FetchBadJsonWith(e) ==
    /\ pc = "fetch"
    /\ KeyNeeded(Source(idx)) \subseteq api_keys
    /\ last' = e
    /\ Handle(e)
    /\ permSeen' = TRUE
    /\ attempts' = attempts + 1
    /\ UNCHANGED <<data_sources, api_keys, analysis, data, body, good, ret>>
    /\ UNCHANGED patternVars

FetchSuccess ==
    /\ pc = "fetch"
    /\ \E d \in PayloadsOf(data_sources) : FetchSuccessWith(d)
    /\ UNCHANGED twiceVars

FetchFail ==
    /\ pc = "fetch"
    /\ \E e \in RequestErrors : FetchFailWith(e)
    /\ UNCHANGED twiceVars

FetchBadJson ==
    /\ pc = "fetch"
    /\ \E e \in JsonErrors : FetchBadJsonWith(e)
    /\ UNCHANGED twiceVars

\* lines 50, 56, 62: requests.get is called without a timeout; a server that
\* accepts the connection and never answers leaves the call blocked
FetchHang ==
    /\ pc = "fetch"
    /\ KeyNeeded(Source(idx)) \subseteq api_keys
    /\ attempts' = attempts + 1
    /\ last' = "hang"
    /\ pc' = "blocked"
    /\ UNCHANGED <<data_sources, api_keys, max_retries, idx, analysis, depth,
                   permSeen, data, body, log, good, failed, stage, ret>>
    /\ UNCHANGED <<twiceVars, patternVars>>

-----------------------------------------------------------------------------

Next ==
    \/ AnalyzeStart
    \/ CallFetch
    \/ FetchKeyError
    \/ FetchSuccess
    \/ FetchFail
    \/ FetchBadJson
    \/ FetchHang
    \/ Process
    \/ Return

Spec == Init /\ [][Next]_vars

\* every step of the interpreter that can be taken is eventually taken
FairSpec == Spec /\ WF_vars(Next)

-----------------------------------------------------------------------------
(* _calculate_trend as a function of its argument: every payload of up to  *)
(* MaxLen entries is passed to one call.                                   *)

InitTrend ==
    /\ data_sources = DefaultDataSources
    /\ api_keys = DefaultApiKeys
    /\ max_retries = DefaultMaxRetries
    /\ pc = "trend"
    /\ idx = 1
    /\ analysis = [timestamp |-> 0, results |-> NoResults]
    /\ depth = 0
    /\ attempts = 0
    /\ last = "none"
    /\ permSeen = FALSE
    /\ data \in FinancePayloads(MaxLen) \cup {NoData}
    /\ body = NoData
    /\ log = {}
    /\ good = {}
    /\ failed = {}
    /\ stage = AllPending
    /\ ret = NoRet
    /\ call = 1
    /\ script = NoScript
    /\ first = NoResults
    /\ PatternsIdle

\* lines 116-132
TrendCall ==
    /\ pc = "trend"
    /\ ret' = CalculateTrend(data)
    /\ log' = IF ret'.logged
              THEN log \cup {[site |-> "_calculate_trend", source |-> Source(idx),
                              exc |-> "KeyError"]}
              ELSE log
    /\ pc' = "trend_done"
    /\ UNCHANGED <<data_sources, api_keys, max_retries, idx, analysis, depth,
                   attempts, last, permSeen, data, body, good, failed, stage>>
    /\ UNCHANGED <<twiceVars, patternVars>>

NextTrend == TrendCall

SpecTrend == InitTrend /\ [][NextTrend]_vars

-----------------------------------------------------------------------------
(* Vocabulary of the properties *)

Registered == {Source(i) : i \in 1..Len(data_sources)}

\* the sources line 102 logged a failure for
LoggedIds == {r.source : r \in {x \in log : x.site = "analyze_trends"}}

\* the source before idx was fetched and its payload, still in data, went
\* through lines 86-100
Processed == pc \in {"loop", "returned"} /\ idx > 1 /\ last = "ok"

PrevSource == Source(idx - 1)

PrevType == SourceType(idx - 1)

ArticlesOf(d) == IF d.hasArticles THEN d.articles ELSE <<>>

\* the titles that contain the keyword in some case
KeywordTitles == {"markets are bullish", "BULLISH rally"}

KeywordCount(a) == Cardinality({i \in 1..Len(a) : a[i].title \in KeywordTitles})

\* a payload whose time series is a sequence of days with numeric closes
PriceSeries(d) ==
    /\ d.hasTS
    /\ \A i \in 1..Len(d.ts) :
        d.ts[i].key = "day" /\ d.ts[i].val.t = "dict" /\ d.ts[i].val.close = "num"

PricesOf(d) == [i \in 1..Len(d.ts) |-> d.ts[i].val.v]

\* the reference classifier: the last price against the mean of the last
\* min(3, length) prices, divided by the number of prices used
RefTrend(prices) ==
    IF Len(prices) < 2 THEN "neutral"
    ELSE LET n == IF Len(prices) < 3 THEN Len(prices) ELSE 3
             total == SumSeq(SubSeq(prices, Len(prices) - n + 1, Len(prices)))
             current == prices[Len(prices)]
         IN CASE current * n > total -> "upward"
              [] current * n < total -> "downward"
              [] OTHER -> "neutral"

-----------------------------------------------------------------------------
(* C1 *)

-----------------------------------------------------------------------------
(* C2 *)

\* C2: when some source failed at any stage, every other source whose own
\* fetch succeeded with a well-formed payload has its analysis result in the
\* returned report.
C2_FaultIsolation ==
    pc = "returned" =>
        \A j \in failed : \A i \in good \ {j} :
            Source(i) \in DOMAIN analysis.results

-----------------------------------------------------------------------------
(* C3 *)

\* C3: every call of analyze_trends eventually returns its report, whatever
\* the network does.
C3_EventuallyReturns == <>(pc = "returned")

-----------------------------------------------------------------------------
(* C4 *)

\* C4: one call of fetch_data sends at most max_retries + 1 requests, and
\* once that many have failed it does not attempt again.
C4_AttemptsBounded ==
    /\ attempts <= max_retries + 1
    /\ (attempts >= max_retries + 1 /\ last \in RequestErrors) => pc # "fetch"

-----------------------------------------------------------------------------
(* C5 *)

\* C5: after an attempt failed with a permanent error (HTTP 4xx, malformed
\* body) the call of fetch_data makes no further attempt.
C5_NoRetryAfterPermanent == ~(permSeen /\ pc = "fetch")

-----------------------------------------------------------------------------
(* C6 *)

-----------------------------------------------------------------------------
(* C7 *)

\* C7: on every sequence of prices _calculate_trend returns what the
\* reference classifier returns.
C7_TrendIsReference ==
    (pc = "trend_done" /\ PriceSeries(data)) =>
        /\ ret.exc = NoExc
        /\ ret.val = RefTrend(PricesOf(data))

-----------------------------------------------------------------------------
(* C8 *)

-----------------------------------------------------------------------------
(* C9 *)

\* C9: a finance source fetched with a well-formed payload is recorded with
\* the latest closing price of the series and the trend of its closing
\* prices.
C9_WellFormedPriceRecorded ==
    (Processed /\ PrevType = "finance" /\ WellFormed("finance", data)) =>
        /\ PrevSource \in DOMAIN analysis.results
        /\ analysis.results[PrevSource] =
              [price |-> PricesOf(data)[Len(data.ts)],
               trend |-> CalculateTrend(data).val]

-----------------------------------------------------------------------------
(* C10 *)

\* C10: _calculate_trend raises on no payload, and on a payload that is not
\* a series of numeric closes it returns neutral and logs the failure.
C10_TrendNeverRaises ==
    pc = "trend_done" =>
        /\ ret.exc = NoExc
        /\ ~PriceSeries(data) => (ret.val = "neutral" /\ ret.logged)

-----------------------------------------------------------------------------
(* C11 *)

\* C11: no exception raised at any stage of any source (key lookup, request,
\* decoding, payload lookup, parsing, analysis) leaves analyze_trends: the
\* call never ends by raising.
C11_NothingEscapes == pc # "raised"

\* a report returned although an exception that is no RequestException (a
\* KeyError, a ValueError, a TypeError or a RecursionError) was raised inside
\* the try block of some source
C11_Witness ==
    /\ pc = "returned"
    /\ \E r \in log :
        /\ r.site = "analyze_trends"
        /\ r.exc \in AllExceptions \ RequestExceptions

-----------------------------------------------------------------------------
(* C12 *)

\* the failures a later attempt can repair
Transient == RequestErrors \ Permanent

\* C12: when the first k attempts of a fetch_data call failed transiently,
\* k <= max_retries, the call is attempting again, one frame per failure, and
\* nothing has been surfaced to the caller; when the next attempt is answered,
\* what fetch_data returns is the body decoded in that attempt, unmodified.
C12_TransientFailuresAbsorbed ==
    /\ pc = "fetch" => depth = attempts + 1
    /\ (1 <= attempts /\ attempts <= max_retries /\ last \in Transient /\ ~permSeen)
          => (pc = "fetch" /\ idx \notin failed)
    /\ (last = "ok" /\ ~permSeen) => data = body

\* fetch_data has returned a time series at attempt max_retries + 1, after
\* max_retries transient failures
C12_Witness ==
    /\ pc = "process"
    /\ last = "ok"
    /\ ~permSeen
    /\ max_retries = DefaultMaxRetries
    /\ attempts = max_retries + 1
    /\ data.hasTS
    /\ data = body

-----------------------------------------------------------------------------
(* C13 *)

\* the sources whose request carries an API key (lines 48 and 60); the key of
\* a source is stored in api_keys under the name of the source
NeedsCredential == {"alphavantage", "newsapi"}

CredentialAbsent(source) == source \in NeedsCredential /\ source \notin api_keys

\* C13: for a source whose credential is absent from api_keys, fetch_data
\* sends no request and makes no second attempt, and the fetch of the source
\* has failed once the call is over.
C13_NoCredentialNoRequest ==
    /\ (pc \in {"fetch", "process", "blocked"} /\ CredentialAbsent(Source(idx)))
          => (pc = "fetch" /\ attempts = 0 /\ depth = 1)
    /\ (pc \in {"loop", "returned"} /\ idx > 1 /\ CredentialAbsent(PrevSource))
          => (attempts = 0 /\ stage[idx - 1] = "FetchFailed" /\ last = "KeyError")

\* the fetch of a source with no credential is over and another source has
\* been fetched with requests before it
C13_Witness ==
    /\ pc = "loop"
    /\ idx = 3
    /\ CredentialAbsent(PrevSource)
    /\ stage = <<"Done", "FetchFailed">>
    /\ attempts = 0

-----------------------------------------------------------------------------
(* C14 *)

\* C14: for a news source fetched with n >= 1 articles, each with a title,
\* the sentiment recorded is p / n, p being the number of titles that contain
\* 'bullish' in any case; 0 <= p <= n and the sentiment lies in [0, 1].
C14_SentimentIsRatio ==
    (/\ Processed
     /\ PrevType = "news"
     /\ WellFormed("news", data)
     /\ Len(ArticlesOf(data)) >= 1) =>
        /\ PrevSource \in DOMAIN analysis.results
        /\ LET n == Len(ArticlesOf(data))
               p == KeywordCount(ArticlesOf(data))
               sentiment == analysis.results[PrevSource].sentiment
           IN /\ 0 <= p /\ p <= n
              /\ sentiment.den > 0
              /\ sentiment.num * n = p * sentiment.den
              /\ 0 <= sentiment.num /\ sentiment.num <= sentiment.den

\* two articles, one of them with the keyword in capitals, recorded as 1/2
C14_Witness ==
    /\ Processed
    /\ PrevType = "news"
    /\ Len(ArticlesOf(data)) = 2
    /\ \E i \in 1..2 : ArticlesOf(data)[i].title = "BULLISH rally"
    /\ KeywordCount(ArticlesOf(data)) = 1
    /\ PrevSource \in DOMAIN analysis.results
    /\ analysis.results[PrevSource].sentiment = [num |-> 1, den |-> 2]

-----------------------------------------------------------------------------
(* Two calls of analyze_trends on one analyzer.  The first call meets any   *)
(* network; the outcome of each of its attempts is kept, per source, in     *)
(* script.  The second call starts from the analyzer as the first call left *)
(* it and meets the same outcomes in the same order.                        *)

\* the outcome of an attempt: kind is "ok" or the exception raised, d the
\* decoded body
Outcome(kind, d) == [kind |-> kind, d |-> d]

\* the first call notes the outcome of the attempt just made
Noted(o) == script' = [script EXCEPT ![idx] = Append(@, o)]

\* the first call made an attempt after the ones the second call has made
CanReplay == attempts < Len(script[idx])

\* its outcome
Replayed == script[idx][attempts + 1]

\* the registries run with retries in both calls: the one of line 27 and
\* those of at most one source; the others are run with max_retries = 0
RetriedTwice ==
    \/ data_sources = DefaultDataSources
    \/ \A i, j \in 1..Len(data_sources) : i = j

InitTwice == Init /\ (max_retries = 0 \/ RetriedTwice)

\* lines 50-65 in either call
TwiceSuccess ==
    \/ /\ call = 1
       /\ pc = "fetch"
       /\ \E d \in SamplePayloads : FetchSuccessWith(d) /\ Noted(Outcome("ok", d))
       /\ UNCHANGED <<call, first>>
    \/ /\ call = 2
       /\ pc = "fetch"
       /\ CanReplay
       /\ Replayed.kind = "ok"
       /\ FetchSuccessWith(Replayed.d)
       /\ UNCHANGED twiceVars

\* lines 50-64, 66-73 in either call
TwiceFail ==
    \/ /\ call = 1
       /\ pc = "fetch"
       /\ \E e \in RequestErrors : FetchFailWith(e) /\ Noted(Outcome(e, NoData))
       /\ UNCHANGED <<call, first>>
    \/ /\ call = 2
       /\ pc = "fetch"
       /\ CanReplay
       /\ Replayed.kind \in RequestErrors
       /\ FetchFailWith(Replayed.kind)
       /\ UNCHANGED twiceVars

\* lines 65, 66-73 in either call
TwiceBadJson ==
    \/ /\ call = 1
       /\ pc = "fetch"
       /\ \E e \in JsonErrors : FetchBadJsonWith(e) /\ Noted(Outcome(e, NoData))
       /\ UNCHANGED <<call, first>>
    \/ /\ call = 2
       /\ pc = "fetch"
       /\ CanReplay
       /\ Replayed.kind \in JsonErrors
       /\ FetchBadJsonWith(Replayed.kind)
       /\ UNCHANGED twiceVars

\* a first call that blocks never returns, and no second call follows it
TwiceHang == call = 1 /\ FetchHang

\* line 104 of the first call, then lines 75-82 of the second: a new dict
\* with a new timestamp; nothing of the first call is passed on but self
SecondCall ==
    /\ pc = "returned"
    /\ call = 1
    /\ call' = 2
    /\ first' = analysis.results
    /\ \E t \in 1..MaxClock : analysis' = [timestamp |-> t, results |-> NoResults]
    /\ idx' = 1
    /\ pc' = "loop"
    /\ good' = {}
    /\ failed' = {}
    /\ stage' = AllPending
    /\ UNCHANGED <<data_sources, api_keys, max_retries, depth, attempts, last,
                   permSeen, data, body, log, ret, script>>
    /\ UNCHANGED patternVars

NextTwice ==
    \/ AnalyzeStart
    \/ CallFetch
    \/ FetchKeyError
    \/ TwiceSuccess
    \/ TwiceFail
    \/ TwiceBadJson
    \/ TwiceHang
    \/ Process
    \/ Return
    \/ SecondCall

SpecTwice == InitTwice /\ [][NextTwice]_vars

-----------------------------------------------------------------------------
(* C15 *)

\* C15: a second call of analyze_trends on the same analyzer, given for each
\* source the outcomes the first call was given, makes the attempts the
\* first call made, no more and no fewer, and returns the per-source entries
\* the first call returned; the timestamp is taken anew.
C15_SecondCallSameResults ==
    /\ (call = 2 /\ pc = "fetch" /\ KeyNeeded(Source(idx)) \subseteq api_keys)
          => CanReplay
    /\ (call = 2 /\ pc \in {"loop", "returned"} /\ idx > 1)
          => attempts = Len(script[idx - 1])
    /\ (call = 2 /\ pc = "returned") => analysis.results = first

\* a second call has returned the entries of the first one, a source of
\* which was fetched at the last attempt max_retries allows
C15_Witness ==
    /\ call = 2
    /\ pc = "returned"
    /\ first # NoResults
    /\ analysis.results = first
    /\ max_retries = DefaultMaxRetries
    /\ \E i \in 1..Len(data_sources) : Len(script[i]) = max_retries + 1

-----------------------------------------------------------------------------
(* C16 *)

\* C16: the timestamp of the report is written when analyze_trends starts,
\* before any source is fetched, and no step taken for a source (a fetch, a
\* retry, a failure, an entry written) changes it until the report is
\* returned.
C16_TimestampWrittenOnce ==
    /\ [](pc = "idle" => (analysis.timestamp = 0 /\ \A i \in DOMAIN stage : stage[i] = "Pending"))
    /\ [](pc # "idle" => analysis.timestamp \in 1..MaxClock)
    /\ [][pc # "idle" => analysis'.timestamp = analysis.timestamp]_vars

\* a report returned with the timestamp read at the start, after one source
\* was retried and recorded and another one failed
C16_Witness ==
    /\ pc = "returned"
    /\ analysis.timestamp = MaxClock
    /\ attempts > 1
    /\ DOMAIN analysis.results # {}
    /\ failed # {}

-----------------------------------------------------------------------------
(* C17 *)

\* the steps a source may take: its fetch starts, the fetch returns a payload
\* or raises, and a fetched payload goes through lines 86-100 (lookup,
\* parsing and analysis), which write the entry or raise
StageSteps ==
    {<<"Pending", "Fetching">>,
     <<"Fetching", "Fetched">>,
     <<"Fetching", "FetchFailed">>,
     <<"Fetched", "Done">>,
     <<"Fetched", "Failed">>}

\* C17: a source moves through its stages in order only: it is parsed and
\* analysed only once its own fetch has returned a payload, a source whose
\* fetch failed is never parsed or analysed, and an entry is in the report
\* only for a source whose parsing and analysis have both completed.
C17_StagesInOrder ==
    /\ [][\A i \in DOMAIN stage :
            stage'[i] # stage[i] => <<stage[i], stage'[i]>> \in StageSteps]_vars
    /\ [](\A i \in DOMAIN stage :
            /\ (pc = "process" /\ idx = i) => (stage[i] = "Fetched" /\ last = "ok")
            /\ stage[i] = "FetchFailed" => Source(i) \notin DOMAIN analysis.results
            /\ Source(i) \in DOMAIN analysis.results <=> stage[i] = "Done")

\* a report returned after one source went through every stage and the fetch
\* of another one failed after a retry
C17_Witness ==
    /\ pc = "returned"
    /\ \E i, j \in DOMAIN stage :
        /\ stage[i] = "Done"
        /\ stage[j] = "FetchFailed"
        /\ i < j
    /\ attempts > 1

-----------------------------------------------------------------------------
(* C18 *)

\* C18: no step of fetch_data or of analyze_trends changes max_retries,
\* api_keys or data_sources: the retries of one source take nothing from the
\* retries of the next source or of a later call.
C18_ConfigurationUnchanged ==
    [][/\ max_retries' = max_retries
       /\ api_keys' = api_keys
       /\ data_sources' = data_sources]_vars

\* the second source of a registry is being fetched, with max_retries as
\* constructed, after the first one was fetched with retries up to the
\* recursion limit and failed
C18_Witness ==
    /\ pc = "fetch"
    /\ idx = 2
    /\ attempts >= 1
    /\ max_retries = DefaultMaxRetries
    /\ stage[1] = "FetchFailed"
    /\ \E r \in log : r.source = Source(1) /\ r.exc = "RecursionError"

-----------------------------------------------------------------------------
(* C19 *)

\* the stages in which a source is being worked on
InProgress == {"Fetching", "Fetched"}

\* C19: the sources are processed one at a time in the order of the
\* registry: at most one source is being worked on, every source before it
\* has reached its final stage and every source after it has not been
\* started.
C19_OneSourceAtATime ==
    /\ Cardinality({i \in DOMAIN stage : stage[i] \in InProgress}) <= 1
    /\ \A i, j \in DOMAIN stage :
          (i < j /\ stage[j] # "Pending") => stage[i] \in {"FetchFailed", "Failed", "Done"}
    /\ \A i \in DOMAIN stage :
          stage[i] \in InProgress => (idx = i /\ pc \in {"fetch", "process", "blocked"})

\* the second source is at its second attempt, after the first source was
\* fetched at its second attempt and recorded
C19_Witness ==
    /\ pc = "fetch"
    /\ idx = 2
    /\ attempts = 1
    /\ stage = <<"Done", "Fetching">>
    /\ last \in RequestErrors

-----------------------------------------------------------------------------
(* src/customer_behavior_analyzer.py: CustomerBehaviorAnalyzer.             *)
(* A DataFrame is its set of columns, the dtype of its timestamp column and *)
(* its rows; a timestamp is a whole number of hours.                        *)

\* most rows of a DataFrame
MaxRows == 2
\* timestamps are 0..MaxHour
MaxHour == 1

Users == {"u1", "u2"}

Items == {"a", "b"}

Columns == {"user_id", "item_id", "timestamp"}

Rows == [user_id : Users, item_id : Items, timestamp : 0..MaxHour]

\* the frames load_data returns (lines 32-36): every column, timestamps
\* converted by pd.to_datetime
LoadedFrames ==
    {[columns |-> Columns, dtype |-> "datetime", rows |-> r] :
        r \in SeqsUpTo(Rows, MaxRows)}

\* frames a caller builds otherwise: a column missing, or timestamps left as
\* strings.  analyze_patterns leaves such a frame at lines 53-57 whatever its
\* rows are, so none or one row is enough
OtherFrames ==
    {f \in [columns : SUBSET Columns, dtype : {"datetime", "str"},
            rows : SeqsUpTo(Rows, MaxRows)] :
        /\ f.columns # Columns \/ f.dtype = "str"
        /\ Len(f.rows) <= 1}

DataFrames == LoadedFrames \cup OtherFrames

Max(S) == CHOOSE x \in S : \A y \in S : y <= x

\* line 53: df['item_id'].value_counts().to_dict()
ValueCounts(rows) ==
    [i \in {rows[k].item_id : k \in 1..Len(rows)} |->
        Cardinality({k \in 1..Len(rows) : rows[k].item_id = i})]

\* line 56: per user, the latest timestamp minus the earliest
SessionOf(rows, u) ==
    LET ts == {rows[k].timestamp : k \in {j \in 1..Len(rows) : rows[j].user_id = u}}
    IN Max(ts) - Min(ts)

RECURSIVE SumOver(_, _)
SumOver(rows, S) ==
    IF S = {} THEN 0
    ELSE LET u == CHOOSE x \in S : TRUE
         IN SessionOf(rows, u) + SumOver(rows, S \ {u})

\* line 57: sessions.mean().total_seconds() / 3600, in hours; the mean of no
\* session is NaT, whose total_seconds() is nan
AvgSessionDuration(rows) ==
    LET users == {rows[k].user_id : k \in 1..Len(rows)}
    IN IF users = {} THEN NaN
       ELSE Ratio(SumOver(rows, users), Cardinality(users))

\* the dict of lines 59-62
Patterns(pf, avg) ==
    [keys |-> {"purchase_freq", "avg_session_duration"},
     purchase_freq |-> pf,
     avg_session_duration |-> avg]

\* lines 53-57.  exc: the exception raised (NoExc if none); freq: whether
\* line 53 had completed
Computed(f) ==
    CASE "item_id" \notin f.columns -> [exc |-> "KeyError", freq |-> FALSE]
      [] "user_id" \notin f.columns -> [exc |-> "KeyError", freq |-> TRUE]
      [] "timestamp" \notin f.columns -> [exc |-> "KeyError", freq |-> TRUE]
      [] f.dtype = "str" /\ f.rows # <<>> -> [exc |-> "TypeError", freq |-> TRUE]
      [] f.dtype = "str" /\ f.rows = <<>> -> [exc |-> "AttributeError", freq |-> TRUE]
      [] OTHER -> [exc |-> NoExc, freq |-> TRUE]

\* self.behavioral_patterns['purchase_freq'] assigned at line 53, before the
\* sessions are computed
OnErrorPartlyStored(old, f) ==
    IF Computed(f).freq
    THEN [keys |-> old.keys \cup {"purchase_freq"},
          purchase_freq |-> ValueCounts(f.rows),
          avg_session_duration |-> old.avg_session_duration]
    ELSE old

\* lines 64-66: self.behavioral_patterns when the call is left by `raise`;
\* the assignment of line 59 has not been reached
OnError(old, f) == old

InitPatterns ==
    /\ data_sources = DefaultDataSources
    /\ api_keys = DefaultApiKeys
    /\ max_retries = DefaultMaxRetries
    /\ pc = "patterns"
    /\ idx = 0
    /\ analysis = [timestamp |-> 0, results |-> NoResults]
    /\ depth = 0
    /\ attempts = 0
    /\ last = "none"
    /\ permSeen = FALSE
    /\ data = NoData
    /\ body = NoData
    /\ log = {}
    /\ good = {}
    /\ failed = {}
    /\ stage = AllPending
    /\ ret = [exc |-> NoExc, val |-> NoPatterns, logged |-> FALSE]
    /\ call = 1
    /\ script = NoScript
    /\ first = NoResults
    /\ PatternsIdle

\* lines 51-66: one call of analyze_patterns(df)
AnalyzePatterns ==
    /\ pc = "patterns"
    /\ \E f \in DataFrames :
        LET c == Computed(f)
        IN IF c.exc = NoExc
           THEN /\ behavioral_patterns' =
                      Patterns(ValueCounts(f.rows), AvgSessionDuration(f.rows))
                /\ ret' = [exc |-> NoExc, val |-> behavioral_patterns', logged |-> FALSE]
                /\ lastPatterns' = ret'.val
                /\ log' = log
           ELSE /\ behavioral_patterns' = OnError(behavioral_patterns, f)
                /\ ret' = [exc |-> c.exc, val |-> NoPatterns, logged |-> TRUE]
                /\ lastPatterns' = lastPatterns
                /\ log' = log \cup {[site |-> "analyze_patterns", source |-> "", exc |-> c.exc]}
    /\ UNCHANGED <<data_sources, api_keys, max_retries, pc, idx, analysis, depth,
                   attempts, last, permSeen, data, body, good, failed, stage>>
    /\ UNCHANGED twiceVars

NextPatterns == AnalyzePatterns

SpecPatterns == InitPatterns /\ [][NextPatterns]_vars

-----------------------------------------------------------------------------
(* C20 *)

\* C20: a call of analyze_patterns that returns has stored in
\* behavioral_patterns exactly what it returns; a call that raises leaves
\* behavioral_patterns as it was; so behavioral_patterns is always what the
\* latest call that returned has returned, and empty while none has.
C20_PatternsAreLastSuccess ==
    /\ [](behavioral_patterns = lastPatterns)
    /\ []((ret.exc = NoExc /\ ret.val # NoPatterns) => ret.val = behavioral_patterns)
    /\ [][ret'.exc # NoExc => behavioral_patterns' = behavioral_patterns]_vars

\* a call has raised after line 53 had completed, on an analyzer holding the
\* patterns of an earlier call
C20_Witness ==
    /\ ret.exc = "TypeError"
    /\ behavioral_patterns # NoPatterns
    /\ behavioral_patterns.purchase_freq # NoResults
    /\ behavioral_patterns.avg_session_duration.num > 0
    /\ behavioral_patterns = lastPatterns

====
